---- MODULE Spec2Model ----
(***************************************************************************)
(* Spherical Mercator projection engine (src/src/lib.rs).                  *)
(*                                                                         *)
(* Number representation.  The engine computes in f64; the model computes  *)
(* in binary fixed point inside the 32-bit integers of the model checker:  *)
(*   - an angle of longitude is held in turns, lon/360, in units of        *)
(*     2^-FracBits turn (Turn = 360 degrees, Half = 180 degrees);          *)
(*   - a latitude phi is held as its isometric latitude                    *)
(*     atanh(sin phi) / (2 pi), in the same unit, so that 85.0511287798    *)
(*     degrees is Half and the poles are PsiPole; a code c with            *)
(*     PsiPole < |c| < 2 PsiPole is a latitude past the pole, the mirror   *)
(*     image (180 - phi) of the latitude coded 2 PsiPole - |c|;            *)
(*   - Web Mercator metres are held in whole units of which MAXEXTENT,     *)
(*     pi A = 20037508.342789244 m, is 20037508;                           *)
(*   - a pixel coordinate is held in units of 1/SubPx pixel;               *)
(*   - a zoom level is held in units of 1/ZoomUnit level;                  *)
(*   - a u32 is held as the two's complement integer of the same bits.     *)
(***************************************************************************)
EXTENDS Integers, Sequences, FiniteSets, TLC

VARIABLES self, overflow_checks, op, args, res, tms_y

vars == <<self, overflow_checks, op, args, res, tms_y>>

----------------------------------------------------------------------------
(* Bounds of the model and constants of the program *)

MaxZoom == 8

NumLevels == 30

FracBits == 30

SubPx == 16

ZoomUnit == 2

Sqrt2Num == 46341

Sqrt2Den == 32768

Turn == 2^FracBits

Half == Turn \div 2

MAXEXTENT == 20037508

\* 2 pi A, the metres of one turn
Circumference == 2 * MAXEXTENT

PsiPole == Turn

PsiClamp == 846205752

NaN == -(Turn + (Turn - 1))

----------------------------------------------------------------------------
(* f64 arithmetic in fixed point *)

Abs(v) == IF v < 0 THEN -v ELSE v

Min(a, b) == IF a < b THEN a ELSE b

Max(a, b) == IF a < b THEN b ELSE a

\* f of the value of e, with e evaluated once
Let1(e, f(_)) == CHOOSE r \in { f(v) : v \in {e} } : TRUE

\* t * s / Turn (t in turns, s in pixel units) is computed exactly, in halves
\* of FracBits bits: MulFloor is its floor and MulRem / Turn what is left
MulMid(t, s) ==
    LET h == 2^(FracBits \div 2)
    IN  (t \div h) * (s % h) + (t % h) * (s \div h) + (((t % h) * (s % h)) \div h)

MulFloor(t, s) ==
    LET h == 2^(FracBits \div 2)
    IN  (t \div h) * (s \div h) + (MulMid(t, s) \div h)

MulRem(t, s) ==
    LET h == 2^(FracBits \div 2)
    IN  (MulMid(t, s) % h) * h + (((t % h) * (s % h)) % h)

\* d + t * s, unrounded: kept to the nearest 1/SubPx pixel
fma(d, t, s) == d + MulFloor(t, s) + (IF MulRem(t, s) >= Half THEN 1 ELSE 0)

\* (d + t * s).round(): f64::round, to the nearest whole pixel, halves away
\* from zero
fma_round(d, t, s) ==
    LET v     == d + MulFloor(t, s)
        w     == v \div SubPx
        f     == v % SubPx
        above == f > SubPx \div 2 \/ (f = SubPx \div 2 /\ MulRem(t, s) > 0)
        tie   == f = SubPx \div 2 /\ MulRem(t, s) = 0
    IN  (IF above \/ (tie /\ w >= 0) THEN w + 1 ELSE w) * SubPx

\* v * num / den without leaving the integer range
MulFrac(v, num, den) == (v \div den) * num + (((v % den) * num) \div den)

RECURSIVE DivDigits(_, _, _)
DivDigits(r, s, n) ==
    IF n = 0 THEN 0
    ELSE ((r * 8) \div s) * 8^(n - 1) + DivDigits((r * 8) % s, s, n - 1)

DivFixPos(p, s) ==
    IF p \div s >= 2 THEN Turn + (Turn - 1)
    ELSE (p \div s) * Turn + DivDigits(p % s, s, FracBits \div 3)

\* p * Turn / s (p, s in pixel units), saturating below two turns
DivFix(p, s) == IF p < 0 THEN -DivFixPos(-p, s) ELSE DivFixPos(p, s)

\* f64 comparisons: false when an operand is NaN
fgt(a, b) == a # NaN /\ b # NaN /\ a > b

flt(a, b) == a # NaN /\ b # NaN /\ a < b

----------------------------------------------------------------------------
(* Results *)

Panic(why) == [kind |-> "panic", why |-> why]

IsPanic(r) == r.kind = "panic"

XYPoint(x, y) == [kind |-> "XYPoint", x |-> x, y |-> y]

LonLatPoint(lon, lat) == [kind |-> "LonLatPoint", lon |-> lon, lat |-> lat]

BBox(w, s, e, n) == [kind |-> "BBox", w |-> w, s |-> s, e |-> e, n |-> n]

XYZBounds(min_x, min_y, max_x, max_y) ==
    [kind |-> "XYZBounds", min_x |-> min_x, min_y |-> min_y,
     max_x |-> max_x, max_y |-> max_y]

----------------------------------------------------------------------------
(* SphericalMercator::new_with_size_and_antimeridian *)

new_with_size_and_antimeridian(size, antimeridian) ==
    [size |-> size, expansion |-> IF antimeridian THEN 2 ELSE 1]

new == new_with_size_and_antimeridian(256, FALSE)

\* The four tables hold NumLevels entries; entry i is built from
\* size_copy = size * 2^i.  bc is pixels per degree and cc pixels per radian:
\* with angles in turns both are the pixels of one turn, ac.
InTable(i) == i \in 0..(NumLevels - 1)

ac(sm, i) == sm.size * SubPx * 2^i

zc(sm, i) == ac(sm, i) \div 2

bc(sm, i) == ac(sm, i)

cc(sm, i) == ac(sm, i)

is_float(zoom) == zoom % ZoomUnit # 0

\* `zoom as usize`: a saturating cast, a negative whole zoom gives 0
as_usize(zoom) == IF zoom < 0 THEN 0 ELSE zoom \div ZoomUnit

\* self.size as f64 * 2.0_f64.powf(zoom)
powf_size(sm, zoom) ==
    LET k    == zoom \div ZoomUnit
        base == IF k >= 0 THEN sm.size * SubPx * 2^k
                ELSE (sm.size * SubPx) \div 2^(-k)
    IN  IF zoom % ZoomUnit = 0 THEN base ELSE MulFrac(base, Sqrt2Num, Sqrt2Den)

\* ll.lat.to_radians().sin().clamp(-0.9999, 0.9999), then
\* 0.5 * ln((1 + f) / (1 - f)): the isometric latitude of the clamped sine
sin_clamp(lat) ==
    LET iso == IF lat > PsiPole THEN PsiPole - (lat - PsiPole)
               ELSE IF lat < -PsiPole THEN -PsiPole - (lat + PsiPole)
               ELSE lat
    IN  Max(-PsiClamp, Min(PsiClamp, iso))

\* d + ll.lon * bc and d + 0.5 * ln((1 + f) / (1 - f)) * -cc before rounding
\* and capping
px_raw(sm, ll, zoom) ==
    IF is_float(zoom)
    THEN LET size == powf_size(sm, zoom)
             d    == size \div 2
         IN  XYPoint(fma(d, ll.lon, size), fma(d, -sin_clamp(ll.lat), size))
    ELSE LET z == as_usize(zoom)
             d == zc(sm, z)
         IN  XYPoint(fma(d, ll.lon, bc(sm, z)), fma(d, -sin_clamp(ll.lat), cc(sm, z)))

\* the same, rounded: the integer path of px
px_rounded(sm, ll, z) ==
    XYPoint(fma_round(zc(sm, z), ll.lon, bc(sm, z)),
            fma_round(zc(sm, z), -sin_clamp(ll.lat), cc(sm, z)))

\* px with a lower clamp at 0 added to both coordinates
px_lower_clamp(sm, ll, zoom) ==
    IF is_float(zoom)
    THEN Let1(px_raw(sm, ll, zoom), LAMBDA raw :
           LET size == powf_size(sm, zoom)
               x    == IF raw.x > size * sm.expansion THEN size * sm.expansion ELSE raw.x
               y    == IF raw.y > size THEN size ELSE raw.y
           IN  XYPoint(Max(0, x), Max(0, y)))
    ELSE IF ~InTable(as_usize(zoom)) THEN Panic("index out of bounds")
         ELSE Let1(px_rounded(sm, ll, as_usize(zoom)), LAMBDA r :
                LET z == as_usize(zoom)
                    x == IF r.x > ac(sm, z) * sm.expansion
                         THEN ac(sm, z) * sm.expansion ELSE r.x
                    y == IF r.y > ac(sm, z) THEN ac(sm, z) ELSE r.y
                IN  XYPoint(Max(0, x), Max(0, y)))

\* px with the rounding of the table path applied on the powf path too
px_round_float(sm, ll, zoom) ==
    IF is_float(zoom)
    THEN LET size == powf_size(sm, zoom)
             d    == size \div 2
             rx   == fma_round(d, ll.lon, size)
             ry   == fma_round(d, -sin_clamp(ll.lat), size)
             x    == IF rx > size * sm.expansion THEN size * sm.expansion ELSE rx
             y    == IF ry > size THEN size ELSE ry
         IN  XYPoint(x, y)
    ELSE IF ~InTable(as_usize(zoom)) THEN Panic("index out of bounds")
         ELSE Let1(px_rounded(sm, ll, as_usize(zoom)), LAMBDA r :
                LET z == as_usize(zoom)
                    x == IF r.x > ac(sm, z) * sm.expansion
                         THEN ac(sm, z) * sm.expansion ELSE r.x
                    y == IF r.y > ac(sm, z) THEN ac(sm, z) ELSE r.y
                IN  XYPoint(x, y))

px(sm, ll, zoom) ==
    IF is_float(zoom)
    THEN Let1(px_raw(sm, ll, zoom), LAMBDA raw :
           LET size == powf_size(sm, zoom)
               x    == IF raw.x > size * sm.expansion THEN size * sm.expansion ELSE raw.x
               y    == IF raw.y > size THEN size ELSE raw.y
           IN  XYPoint(x, y))
    ELSE IF ~InTable(as_usize(zoom)) THEN Panic("index out of bounds")
         ELSE Let1(px_rounded(sm, ll, as_usize(zoom)), LAMBDA r :
                LET z == as_usize(zoom)
                    x == IF r.x > ac(sm, z) * sm.expansion
                         THEN ac(sm, z) * sm.expansion ELSE r.x
                    y == IF r.y > ac(sm, z) THEN ac(sm, z) ELSE r.y
                IN  XYPoint(x, y))

\* (2.0 * g.exp().atan() - 0.5 * PI).to_degrees(): the latitude whose isometric
\* latitude is g; it never leaves the poles
gd(g) == Max(-PsiPole, Min(PsiPole, g))

ll(sm, p, zoom) ==
    IF is_float(zoom)
    THEN LET size == powf_size(sm, zoom)
             zc_  == size \div 2
         IN  LonLatPoint(DivFix(p.x - zc_, size), gd(DivFix(zc_ - p.y, size)))
    ELSE LET z == as_usize(zoom)
         IN  IF ~InTable(z) THEN Panic("index out of bounds")
             ELSE LonLatPoint(DivFix(p.x - zc(sm, z), bc(sm, z)),
                              gd(DivFix(zc(sm, z) - p.y, cc(sm, z))))

----------------------------------------------------------------------------
(* u32 arithmetic of the tile indices *)

\* `v as u32` of a floored f64: a saturating cast, a negative value gives 0
\* (tile counts of the modelled zoom levels stay far below u32::MAX)
as_u32(v) == IF v < 0 THEN 0 ELSE v

\* unsigned order of two u32 bit patterns
u32_le(a, b) == IF (a < 0) = (b < 0) THEN a <= b ELSE b < 0

\* 2^zoom - 1 for zoom < 32
pow2_minus_1(zoom) == IF zoom = 31 THEN (2^30 - 1) + 2^30 ELSE 2^zoom - 1

\* (2_u32.pow(zoom) - 1) - y.  With overflow checks (a debug build) an
\* overflowing power or subtraction panics; without them (a release build) it
\* wraps: 2^zoom is 0 for zoom >= 32, so 2^zoom - 1 is 0xFFFFFFFF.
tms_flip(zoom, y, checks) ==
    IF zoom >= 32
    THEN IF checks THEN Panic("attempt to multiply with overflow")
         ELSE [kind |-> "u32", v |-> -1 - y]
    ELSE IF u32_le(y, pow2_minus_1(zoom))
         THEN [kind |-> "u32", v |-> pow2_minus_1(zoom) - y]
         ELSE IF checks THEN Panic("attempt to subtract with overflow")
              ELSE [kind |-> "u32", v |-> pow2_minus_1(zoom) - y]

\* `u as f64` of a tile index, and its product with the tile size; a product
\* past the range of the model is held as F64Big (far outside every world)
F64Big == Turn

as_f64(u) == IF u < 0 THEN F64Big ELSE u

times_size(t, sm) ==
    IF t >= F64Big \div (sm.size * SubPx) THEN F64Big ELSE t * sm.size * SubPx

----------------------------------------------------------------------------
(* forward, inverse, convert *)

\* x: (A * ll.lon).to_radians() is lon/360 of the circumference.
\* y: A * ln(tan(PI/4 + lat/2)) is A times the isometric latitude; past the
\* pole the tangent is negative and its logarithm is NaN; at the south pole
\* the tangent is 0 and the logarithm -inf, which the clamp brings back.
forward(sm, p) ==
    LET x0 == fma(0, p.lon, Circumference)
        y0 == IF Abs(p.lat) > PsiPole THEN NaN ELSE fma(0, p.lat, Circumference)
        x1 == IF fgt(x0, MAXEXTENT) THEN MAXEXTENT ELSE x0
        x2 == IF flt(x1, -MAXEXTENT) THEN -MAXEXTENT ELSE x1
        y1 == IF fgt(y0, MAXEXTENT) THEN MAXEXTENT ELSE y0
        y2 == IF flt(y1, -MAXEXTENT) THEN -MAXEXTENT ELSE y1
    IN  XYPoint(x2, y2)

\* lon: xy.x.to_degrees() / A; lat: the latitude whose isometric latitude is
\* xy.y / A
inverse(sm, xy) ==
    LonLatPoint(DivFix(xy.x, Circumference), gd(DivFix(xy.y, Circumference)))

convert(sm, bbox, to) ==
    IF to = "900913"
    THEN LET ll_forward == forward(sm, LonLatPoint(bbox.w, bbox.s))
             ur_forward == forward(sm, LonLatPoint(bbox.e, bbox.n))
         IN  BBox(ll_forward.x, ll_forward.y, ur_forward.x, ur_forward.y)
    ELSE LET ll_inverse == inverse(sm, XYPoint(bbox.w, bbox.s))
             ur_inverse == inverse(sm, XYPoint(bbox.e, bbox.n))
         IN  BBox(ll_inverse.lon, ll_inverse.lat, ur_inverse.lon, ur_inverse.lat)

----------------------------------------------------------------------------
(* bbox, xyz *)

\* the local y of bbox after the TMS flip
bbox_y(y, zoom, tms_style, checks) ==
    IF tms_style THEN tms_flip(zoom, y, checks) ELSE [kind |-> "u32", v |-> y]

\* bbox taking every srs other than "WGS84" for Web Mercator
bbox_srs_strict(sm, x, y, zoom, tms_style, srs, checks) ==
    Let1(bbox_y(y, zoom, tms_style, checks), LAMBDA yy :
      IF IsPanic(yy) THEN yy
      ELSE LET ll_ == XYPoint(times_size(as_f64(x), sm),
                              times_size(as_f64(yy.v) + 1, sm))
               ur  == XYPoint(times_size(as_f64(x) + 1, sm),
                              times_size(as_f64(yy.v), sm))
           IN  Let1(ll(sm, ll_, zoom * ZoomUnit), LAMBDA ll_ll :
               Let1(ll(sm, ur, zoom * ZoomUnit), LAMBDA ur_ll :
                 IF IsPanic(ll_ll) THEN ll_ll
                 ELSE IF IsPanic(ur_ll) THEN ur_ll
                 ELSE LET b == BBox(ll_ll.lon, ll_ll.lat, ur_ll.lon, ur_ll.lat)
                      IN  IF srs = "WGS84" THEN b ELSE convert(sm, b, "900913"))))

bbox(sm, x, y, zoom, tms_style, srs, checks) ==
    Let1(bbox_y(y, zoom, tms_style, checks), LAMBDA yy :
      IF IsPanic(yy) THEN yy
      ELSE LET ll_ == XYPoint(times_size(as_f64(x), sm),
                              times_size(as_f64(yy.v) + 1, sm))
               ur  == XYPoint(times_size(as_f64(x) + 1, sm),
                              times_size(as_f64(yy.v), sm))
           IN  Let1(ll(sm, ll_, zoom * ZoomUnit), LAMBDA ll_ll :
               Let1(ll(sm, ur, zoom * ZoomUnit), LAMBDA ur_ll :
                 IF IsPanic(ll_ll) THEN ll_ll
                 ELSE IF IsPanic(ur_ll) THEN ur_ll
                 ELSE LET b == BBox(ll_ll.lon, ll_ll.lat, ur_ll.lon, ur_ll.lat)
                      IN  IF srs = "900913" THEN convert(sm, b, "900913") ELSE b)))

\* xyz_bounds without the one-pixel subtraction at the upper corner
xyz_bounds_no_subtraction(sm, bbox_, zoom, srs) ==
    Let1(IF srs = "900913" THEN convert(sm, bbox_, "WGS84") ELSE bbox_, LAMBDA b :
    Let1(px(sm, LonLatPoint(b.w, b.s), zoom * ZoomUnit), LAMBDA px_ll :
    Let1(px(sm, LonLatPoint(b.e, b.n), zoom * ZoomUnit), LAMBDA px_ur :
      IF IsPanic(px_ll) THEN px_ll
      ELSE IF IsPanic(px_ur) THEN px_ur
      ELSE LET size == sm.size * SubPx
               x0   == as_u32(px_ll.x \div size)
               x1   == as_u32(px_ur.x \div size)
               y0   == as_u32(px_ur.y \div size)
               y1   == as_u32(px_ll.y \div size)
           IN  XYZBounds(Min(x0, x1), Min(y0, y1), Max(x0, x1), Max(y0, y1)))))

\* the XYZBounds of xyz before the TMS flip, or the panic of px
xyz_bounds(sm, bbox_, zoom, srs) ==
    Let1(IF srs = "900913" THEN convert(sm, bbox_, "WGS84") ELSE bbox_, LAMBDA b :
    Let1(px(sm, LonLatPoint(b.w, b.s), zoom * ZoomUnit), LAMBDA px_ll :
    Let1(px(sm, LonLatPoint(b.e, b.n), zoom * ZoomUnit), LAMBDA px_ur :
      IF IsPanic(px_ll) THEN px_ll
      ELSE IF IsPanic(px_ur) THEN px_ur
      ELSE LET size == sm.size * SubPx
               x0   == as_u32(px_ll.x \div size)
               x1   == as_u32((px_ur.x - SubPx) \div size)
               y0   == as_u32(px_ur.y \div size)
               y1   == as_u32((px_ll.y - SubPx) \div size)
           IN  XYZBounds(Min(x0, x1), Min(y0, y1), Max(x0, x1), Max(y0, y1)))))

xyz(sm, bbox_, zoom, tms_style, srs, checks) ==
    Let1(xyz_bounds(sm, bbox_, zoom, srs), LAMBDA bounds :
      IF IsPanic(bounds) \/ ~tms_style THEN bounds
      ELSE Let1(tms_flip(zoom, bounds.max_y, checks), LAMBDA tms_min_y :
           Let1(tms_flip(zoom, bounds.min_y, checks), LAMBDA tms_max_y :
             IF IsPanic(tms_min_y) THEN tms_min_y
             ELSE IF IsPanic(tms_max_y) THEN tms_max_y
             ELSE XYZBounds(bounds.min_x, tms_min_y.v, bounds.max_x, tms_max_y.v))))

\* the values the TMS flips of a call produced, in program order
xyz_flips(sm, bbox_, zoom, tms_style, srs, checks) ==
    Let1(xyz_bounds(sm, bbox_, zoom, srs), LAMBDA bounds :
      IF IsPanic(bounds) \/ ~tms_style THEN <<>>
      ELSE Let1(tms_flip(zoom, bounds.max_y, checks), LAMBDA tms_min_y :
           Let1(tms_flip(zoom, bounds.min_y, checks), LAMBDA tms_max_y :
             IF IsPanic(tms_min_y) THEN <<>>
             ELSE IF IsPanic(tms_max_y) THEN <<tms_min_y.v>>
             ELSE <<tms_min_y.v, tms_max_y.v>>)))

bbox_flips(y, zoom, tms_style, checks) ==
    LET yy == bbox_y(y, zoom, tms_style, checks)
    IN  IF tms_style /\ ~IsPanic(yy) THEN <<yy.v>> ELSE <<>>

----------------------------------------------------------------------------
(* Inputs *)

Engines ==
    { new,
      new_with_size_and_antimeridian(256, TRUE),
      new_with_size_and_antimeridian(512, FALSE) }

Lon240 == 715827883

Lon250 == 745654044

Lon112_5 == 335544320

Lons == { -Lon240, -Half, -Lon112_5, 0, Half, Lon240, Lon250 }

Lat85_0511 == 536869917

Lat85 == 535112214

Lat41 == 134474728

Lat85_06 == Half + 306991

Lat100 == PsiPole + (PsiPole - 416333301)

Lats == { -Lat100, -PsiPole, -Lat85_06, -Half, -Lat85_0511, 0, Lat41,
          Lat85, Lat85_0511, Half, Lat85_06, PsiPole, Lat100 }

\* zoom values for px and ll: whole and half levels, negative ones, and
\* whole levels past the tables
FloatZooms == (-4)..(ZoomUnit * MaxZoom + 1) \cup { ZoomUnit * NumLevels, ZoomUnit * (NumLevels + 2) }

Pixels(z) == LET s == powf_size(new, Max(0, Min(z, ZoomUnit * MaxZoom)))
             IN  { -SubPx, 0, 200 * SubPx, 200 * SubPx + SubPx \div 2, s \div 2, s, s + SubPx }

\* zoom levels for bbox and xyz: the modelled levels and levels past the tables
TileZooms == 0..MaxZoom \cup { NumLevels, NumLevels + 2, NumLevels + 3 }

\* tile indices: the corners and the middle of the level, and the first
\* index past it
Tiles(zoom) ==
    LET n == 2^Min(zoom, MaxZoom)
    IN  { 0, 1, n \div 2, n - 1, n }

SrsNames == { "WGS84", "900913", "", "EPSG:3857" }

\* corners of boxes in degrees: outside the world, on its edges, inside it
WgsCorners ==
    { LonLatPoint(-Lon240, -PsiPole), LonLatPoint(-Half, -Half),
      LonLatPoint(-Half, -Lat85_0511), LonLatPoint(0, -Lat85_0511),
      LonLatPoint(0, -PsiPole), LonLatPoint(0, 0), LonLatPoint(0, Lat41),
      LonLatPoint(-Lon112_5, Lat85_0511), LonLatPoint(Half, 0),
      LonLatPoint(Half, Half), LonLatPoint(Half, Lat100),
      LonLatPoint(Lon240, PsiPole) }

\* boxes in degrees, inverted and degenerate ones included
WgsBoxes == { BBox(c.lon, c.lat, d.lon, d.lat) : c \in WgsCorners, d \in WgsCorners }

\* the metres of 240 degrees of longitude, 4/3 of the extent
Metres240 == MAXEXTENT + MAXEXTENT \div 3

\* corners of boxes in Web Mercator metres
MercCorners ==
    { XYPoint(-MAXEXTENT, -MAXEXTENT), XYPoint(-Metres240, -Metres240), XYPoint(0, 0),
      XYPoint(MAXEXTENT, MAXEXTENT), XYPoint(MAXEXTENT, 0), XYPoint(Metres240, Metres240) }

MercBoxes == { BBox(c.x, c.y, d.x, d.y) : c \in MercCorners, d \in MercCorners }

\* a box is drawn in the coordinate system the called path reads it in:
\* convert reads degrees on the way to "900913" and metres otherwise
BoxesOf(to) == IF to = "900913" THEN WgsBoxes ELSE MercBoxes

----------------------------------------------------------------------------
(* The state machine: an engine is built, then one operation is called *)

Init ==
    /\ self \in Engines
    /\ overflow_checks \in BOOLEAN
    /\ op = "new"
    /\ args = [none |-> TRUE]
    /\ res = [kind |-> "none"]
    /\ tms_y = <<>>

Px ==
    /\ op = "new"
    /\ \E lon \in Lons, lat \in Lats, zoom \in FloatZooms :
         /\ op' = "px"
         /\ args' = [ll |-> LonLatPoint(lon, lat), zoom |-> zoom]
         /\ res' = px(self, LonLatPoint(lon, lat), zoom)
    /\ UNCHANGED <<self, overflow_checks, tms_y>>

Ll ==
    /\ op = "new"
    /\ \E zoom \in FloatZooms :
         \E x \in Pixels(zoom), y \in Pixels(zoom) :
           /\ op' = "ll"
           /\ args' = [px |-> XYPoint(x, y), zoom |-> zoom]
           /\ res' = ll(self, XYPoint(x, y), zoom)
    /\ UNCHANGED <<self, overflow_checks, tms_y>>

Forward ==
    /\ op = "new"
    /\ \E lon \in Lons, lat \in Lats :
         /\ op' = "forward"
         /\ args' = [ll |-> LonLatPoint(lon, lat)]
         /\ res' = forward(self, LonLatPoint(lon, lat))
    /\ UNCHANGED <<self, overflow_checks, tms_y>>

Convert ==
    /\ op = "new"
    /\ \E to \in SrsNames :
         \E b \in BoxesOf(to) :
           /\ op' = "convert"
           /\ args' = [bbox |-> b, to |-> to]
           /\ res' = convert(self, b, to)
    /\ UNCHANGED <<self, overflow_checks, tms_y>>

Bbox ==
    /\ op = "new"
    /\ \E zoom \in TileZooms, tms_style \in BOOLEAN, srs \in SrsNames :
         \E x \in Tiles(zoom), y \in Tiles(zoom) :
           /\ op' = "bbox"
           /\ args' = [x |-> x, y |-> y, zoom |-> zoom, tms_style |-> tms_style,
                       srs |-> srs]
           /\ res' = bbox(self, x, y, zoom, tms_style, srs, overflow_checks)
           /\ tms_y' = bbox_flips(y, zoom, tms_style, overflow_checks)
    /\ UNCHANGED <<self, overflow_checks>>

Xyz ==
    /\ op = "new"
    /\ \E zoom \in TileZooms, tms_style \in BOOLEAN, srs \in SrsNames :
         \E b \in (IF srs = "900913" THEN MercBoxes ELSE WgsBoxes) :
           /\ op' = "xyz"
           /\ args' = [bbox |-> b, zoom |-> zoom, tms_style |-> tms_style,
                       srs |-> srs]
           /\ res' = xyz(self, b, zoom, tms_style, srs, overflow_checks)
           /\ tms_y' = xyz_flips(self, b, zoom, tms_style, srs, overflow_checks)
    /\ UNCHANGED <<self, overflow_checks>>

Next == Px \/ Ll \/ Forward \/ Convert \/ Bbox \/ Xyz

Spec == Init /\ [][Next]_vars

----------------------------------------------------------------------------
(* Properties of xyz, bbox, px, ll, forward and convert *)

\* the cap px applies: the table entry ac[zoom as usize] on the table path,
\* size * 2^zoom on the powf path
px_cap(sm, zoom) ==
    IF is_float(zoom) THEN powf_size(sm, zoom) ELSE ac(sm, as_usize(zoom))

\* v is what px makes of the raw value r under the cap c: r itself or r
\* rounded when that is no more than c, and c otherwise; nothing is raised
passes_below(v, r, c) ==
    /\ v <= c
    /\ (r < c => Abs(v - r) <= SubPx \div 2)
    /\ (r <= -SubPx => v < 0)

\* C1: for every bbox, zoom, tms_style and srs the bounds xyz returns are
\* ordered, min_x <= max_x and min_y <= max_y (as u32), also after the TMS
\* flip.
C1_xyz_ordered ==
    (op = "xyz" /\ res.kind = "XYZBounds")
    => /\ u32_le(res.min_x, res.max_x)
       /\ u32_le(res.min_y, res.max_y)

\* C2: for a zoom in the tables and a tile (x, y) of that zoom,
\* xyz(bbox(x, y, zoom, TMS, "WGS84"), zoom, TMS, "WGS84") is exactly
\* min_x = max_x = x and min_y = max_y = y.
C2_bbox_xyz_inverse ==
    (/\ op = "bbox" /\ args.tms_style /\ args.srs = "WGS84"
     /\ InTable(args.zoom)
     /\ args.x <= 2^args.zoom - 1 /\ args.y <= 2^args.zoom - 1)
    => /\ res.kind = "BBox"
       /\ xyz(self, res, args.zoom, TRUE, "WGS84", overflow_checks)
            = XYZBounds(args.x, args.y, args.x, args.y)

\* a tile on the east edge and in the middle row of a level with many tiles
\* has gone through bbox and comes back from xyz
C2_witness ==
    /\ op = "bbox" /\ args.tms_style /\ args.srs = "WGS84"
    /\ args.zoom >= 3 /\ InTable(args.zoom)
    /\ args.x = 2^args.zoom - 1 /\ args.y = 2^args.zoom \div 2
    /\ res.kind = "BBox"
    /\ xyz(self, res, args.zoom, TRUE, "WGS84", overflow_checks).max_x = args.x

\* C3: forward returns x = +/-MAXEXTENT (sign of lon) when |lon| >= 180,
\* y = +/-MAXEXTENT (sign of lat) when |lat| >= 85.06, latitudes at and past
\* +/-90 included, and no result outside [-MAXEXTENT, MAXEXTENT].
C3_forward_clamps ==
    op = "forward"
    => /\ (args.ll.lon >= Half => res.x = MAXEXTENT)
       /\ (args.ll.lon <= -Half => res.x = -MAXEXTENT)
       /\ (args.ll.lat >= Lat85_06 => res.y = MAXEXTENT)
       /\ (args.ll.lat <= -Lat85_06 => res.y = -MAXEXTENT)
       /\ res.x # NaN /\ Abs(res.x) <= MAXEXTENT
       /\ res.y # NaN /\ Abs(res.y) <= MAXEXTENT

\* C4, as stated: for every engine, point and zoom the x that px returns is
\* at most tile_size * 2^zoom * expansion and the y at most
\* tile_size * 2^zoom, and a coordinate computed below 0 is returned negative.
C4_px_cap_nominal ==
    (op = "px" /\ res.kind = "XYPoint")
    => /\ passes_below(res.x, px_raw(self, args.ll, args.zoom).x,
                       powf_size(self, args.zoom) * self.expansion)
       /\ passes_below(res.y, px_raw(self, args.ll, args.zoom).y,
                       powf_size(self, args.zoom))

\* C4, amended: the cap of a whole zoom is the table entry the lookup reads,
\* tile_size * 2^max(zoom, 0), so that of level 0 for a negative whole zoom;
\* the cap of a fractional zoom is tile_size * 2^zoom.  The x px returns is
\* at most the cap times the expansion, the y at most the cap, and a
\* coordinate computed below 0 is returned negative.
C4_px_cap_of_path ==
    (op = "px" /\ res.kind = "XYPoint")
    => /\ passes_below(res.x, px_raw(self, args.ll, args.zoom).x,
                       px_cap(self, args.zoom) * self.expansion)
       /\ passes_below(res.y, px_raw(self, args.ll, args.zoom).y,
                       px_cap(self, args.zoom))

\* px at a negative whole zoom has capped x at the entry of level 0 and let a
\* negative y through
C4_witness ==
    /\ op = "px" /\ res.kind = "XYPoint"
    /\ args.zoom < 0 /\ ~is_float(args.zoom)
    /\ px_raw(self, args.ll, args.zoom).x > ac(self, 0) * self.expansion
    /\ res.x = ac(self, 0) * self.expansion
    /\ res.y < 0

\* C5: at a whole zoom in the tables px returns whole pixels, the raw value
\* of the table entry rounded to the nearest pixel and then capped; at a
\* fractional zoom it returns the raw value of size * 2^zoom, capped and not
\* rounded.  ll does not round: the sub-pixel position it was given can be
\* read back from the longitude it returns.
C5_px_paths ==
    /\ (op = "px" /\ res.kind = "XYPoint" /\ args.zoom >= 0)
       => IF is_float(args.zoom)
          THEN LET raw  == px_raw(self, args.ll, args.zoom)
                   size == powf_size(self, args.zoom)
               IN  /\ res.x = Min(raw.x, size * self.expansion)
                   /\ res.y = Min(raw.y, size)
          ELSE LET z   == args.zoom \div ZoomUnit
                   raw == px_raw(self, args.ll, args.zoom)
                   r   == px_rounded(self, args.ll, z)
               IN  /\ res.x % SubPx = 0 /\ res.y % SubPx = 0
                   /\ Abs(r.x - raw.x) <= SubPx \div 2
                   /\ Abs(r.y - raw.y) <= SubPx \div 2
                   /\ res.x = Min(r.x, ac(self, z) * self.expansion)
                   /\ res.y = Min(r.y, ac(self, z))
    /\ (op = "ll" /\ res.kind = "LonLatPoint" /\ args.zoom >= 0
          /\ Abs(res.lon) < Turn)
       => LET size == px_cap(self, args.zoom)
          IN  fma(size \div 2, res.lon, size) = args.px.x

\* px at a fractional zoom has returned a position between two pixels
C5_witness ==
    /\ op = "px" /\ res.kind = "XYPoint"
    /\ args.zoom > 0 /\ is_float(args.zoom)
    /\ res.x % SubPx # 0
    /\ res.x < powf_size(self, args.zoom) * self.expansion
    /\ res.x = px_raw(self, args.ll, args.zoom).x

\* C6: px and ll return a point for every zoom, whole zooms above 29 and
\* negative zooms included; they never abort on the table lookup.
C6_px_ll_total ==
    op \in {"px", "ll"} => ~IsPanic(res)

\* C7: the TMS flip (2^zoom - 1) - y of bbox and xyz never wraps silently: a
\* call that returns has flipped every y exactly, so zoom < 32,
\* y <= 2^zoom - 1 and the flipped value is the difference.
C7_tms_flip_exact ==
    /\ (op = "bbox" /\ args.tms_style /\ ~IsPanic(res))
       => /\ args.zoom < 32
          /\ u32_le(args.y, pow2_minus_1(args.zoom))
          /\ tms_y = <<pow2_minus_1(args.zoom) - args.y>>
    /\ (op = "xyz" /\ args.tms_style /\ ~IsPanic(res))
       => LET b == xyz_bounds(self, args.bbox, args.zoom, args.srs)
          IN  /\ args.zoom < 32
              /\ u32_le(b.max_y, pow2_minus_1(args.zoom))
              /\ u32_le(b.min_y, pow2_minus_1(args.zoom))
              /\ res.min_y = pow2_minus_1(args.zoom) - b.max_y
              /\ res.max_y = pow2_minus_1(args.zoom) - b.min_y

C9_whole_world ==
    (/\ op = "xyz" /\ self = new /\ args.srs = "WGS84" /\ InTable(args.zoom)
     /\ args.bbox.w <= -Half /\ args.bbox.e >= Half
     /\ args.bbox.s <= -Half /\ args.bbox.n >= Half)
    => res = XYZBounds(0, 0, 2^args.zoom - 1, 2^args.zoom - 1)

\* C10: with the default engine, for a zoom in the tables and a WGS84 bbox
\* inside the world (-180 <= w <= e <= 180, -85.0511 <= s <= n <= 85.0511,
\* degenerate boxes on an edge included) xyz returns four indices in
\* 0 .. 2^zoom - 1, for both tms_style values.
C10_indices_exist ==
    (/\ op = "xyz" /\ self = new /\ args.srs = "WGS84" /\ InTable(args.zoom)
     /\ -Half <= args.bbox.w /\ args.bbox.w <= args.bbox.e /\ args.bbox.e <= Half
     /\ -Lat85_0511 <= args.bbox.s /\ args.bbox.s <= args.bbox.n
     /\ args.bbox.n <= Lat85_0511)
    => /\ res.kind = "XYZBounds"
       /\ \A i \in {res.min_x, res.min_y, res.max_x, res.max_y} :
            0 <= i /\ i <= 2^args.zoom - 1

====
